---- MODULE Spec2Model ----
(***************************************************************************)
(* Model of the two deployment-support scripts of the repository:          *)
(*   src/app_hf.py          the environment provisioner and server start,  *)
(*   src/test_hf_deploy.py  the deployment packager / validator.           *)
(* Spec is the provisioner script, SpecPack the packager script.           *)
(***************************************************************************)
EXTENDS Integers, Sequences, FiniteSets, TLC

VARIABLES
  pc,        \* position of the provisioner script (app_hf.py, lines 74-113)
  env,       \* os.environ: a function from the names that are set to their values
  dirs,      \* the directories that exist on the filesystem
  ret,       \* the pair returned by the latest setup_hf_environment call
  calls,     \* how many calls of setup_hf_environment returned or raised
  env0,      \* history: os.environ as the operator left it
  dirs0,     \* history: the directories that existed at process start
  envPrev,   \* history: os.environ when the latest call started
  retPrev,   \* history: what the call before the latest returned
  ensured,   \* history: the paths os.makedirs returned normally for, this run
  raisedAt,  \* history: index of the statement that raised in setup (0: none)
  imported,  \* history: the import of the application was reached
  \* ---- the packager script (test_hf_deploy.py); env is its os.environ too
  ppc,       \* position of main()
  cwdFiles,  \* the regular files of the invocation directory: name -> content
  cwdDirs,   \* its directories: name -> tree (relative path -> content)
  scratch,   \* ./test_hf_space: absent, a regular file, or a directory
  checked,   \* history: the paths test_file_preparation examined, in order
  missing_files, \* the missing-list test_file_preparation collected
  r1, r2, r3,    \* what each stage returned ("notrun" before it returns)
  started,   \* history: the stages main has started
  raisedStep,\* history: the step of simulate_workflow that raised (0: none)
  report,    \* the final success report was printed
  scratch0   \* history: ./test_hf_space before the run

provVars == <<pc, env, dirs, ret, calls, env0, dirs0, envPrev, retPrev,
              ensured, raisedAt, imported>>

packVars == <<ppc, cwdFiles, cwdDirs, scratch, checked, missing_files, r1, r2, r3,
              started, raisedStep, report, scratch0>>

vars == <<provVars, packVars>>

\* ------------------------------------------------------------------------
\* Bounds of the model
\* ------------------------------------------------------------------------

\* how many variables the operator may have set before the script starts
MaxPreset == 1
\* how many times setup_hf_environment is called in one process
MaxCalls == 2
\* the longest content of README_HF.md, in characters
MaxLen == 3

\* ------------------------------------------------------------------------
\* src/app_hf.py: setup_hf_environment
\* ------------------------------------------------------------------------

NoReturn == <<>>

\* values an operator may have given a variable: the empty string or a path
OperatorValues == {"", "/data/custom"}

\* what secrets.token_urlsafe(32) may return: never empty, fresh at each call
Tokens == {"tok-A", "tok-B"}

SD(k, v) == [op |-> "setdefault", key |-> k, val |-> v]
MK(p) == [op |-> "makedirs", key |-> p, val |-> ""]
JWT == [op |-> "jwt", key |-> "JWT_SECRET", val |-> ""]

file_store_path == "/tmp/openhands"
cache_dir == "/tmp/cache"
workspace_dir == "/tmp/workspace"

\* the statements of setup_hf_environment, in program order
SetupStmts ==
  << SD("OPENHANDS_RUNTIME", "local"),
     SD("CORS_ALLOWED_ORIGINS", "*"),
     SD("SERVE_FRONTEND", "false"),
     MK(file_store_path),
     MK(cache_dir),
     SD("FILE_STORE_PATH", file_store_path),
     SD("CACHE_DIR", cache_dir),
     JWT,
     SD("DISABLE_SECURITY", "true"),
     SD("SANDBOX_RUNTIME_CONTAINER_IMAGE", ""),
     SD("SANDBOX_USER_ID", "1000"),
     SD("WORKSPACE_BASE", "/tmp/workspace"),
     SD("OPENHANDS_DISABLE_AUTH", "true"),
     SD("ENABLE_AUTO_LINT", "false"),
     SD("ENABLE_SECURITY_ANALYSIS", "false"),
     SD("SETTINGS_STORE_TYPE", "memory"),
     SD("SECRETS_STORE_TYPE", "memory"),
     SD("DEFAULT_LLM_MODEL", "openrouter/anthropic/claude-3-haiku-20240307"),
     SD("DEFAULT_LLM_BASE_URL", "https://openrouter.ai/api/v1"),
     SD("SKIP_SETTINGS_MODAL", "true"),
     SD("DEFAULT_AGENT", "CodeActAgent"),
     SD("DEFAULT_LANGUAGE", "en"),
     SD("CONFIRMATION_MODE", "false"),
     SD("ENABLE_AUTO_LINT", "false"),
     SD("MAX_ITERATIONS", "30"),
     SD("MAX_BUDGET_PER_TASK", "10.0"),
     MK(workspace_dir) >>

\* every environment variable the function reads or writes
EnvNames == {SetupStmts[i].key : i \in {j \in DOMAIN SetupStmts : SetupStmts[j].op # "makedirs"}}

\* every path of the modelled filesystem
AllDirs == {file_store_path, cache_dir, workspace_dir, "/data/custom"}

MakedirsAt == {i \in DOMAIN SetupStmts : SetupStmts[i].op = "makedirs"}

\* os.environ.setdefault(k, v)
Setdefault(e, k, v) == IF k \in DOMAIN e THEN e ELSE (k :> v) @@ e

\* faulty variant: the secret is regenerated at every call
JwtAlwaysMissing(e) == TRUE

\* not os.getenv("JWT_SECRET"): unset, or set to the empty string
JwtSecretMissing(e) == "JWT_SECRET" \notin DOMAIN e \/ e["JWT_SECRET"] = ""

\* the JWT block: assign a fresh token when no secret was provided
GenerateJwt(e, tok) ==
  IF JwtSecretMissing(e) THEN [k \in DOMAIN e \cup {"JWT_SECRET"} |->
                                  IF k = "JWT_SECRET" THEN tok ELSE e[k]]
  ELSE e

\* os.makedirs(p, mode=0o755, exist_ok=True): an existing directory is kept,
\* a missing one is created, or the creation raises (fail) and nothing is made
Makedirs(d, p, fail) ==
  IF p \in d THEN [dirs |-> d, raised |-> FALSE, ok |-> TRUE]
  ELSE IF fail THEN [dirs |-> d, raised |-> TRUE, ok |-> FALSE]
  ELSE [dirs |-> d \cup {p}, raised |-> FALSE, ok |-> TRUE]

\* the effect of statement i on the running state st of the call
ExecStmt(st, i, tok, failAt) ==
  LET s == SetupStmts[i] IN
  CASE s.op = "setdefault" -> [st EXCEPT !.env = Setdefault(st.env, s.key, s.val)]
    [] s.op = "jwt" -> [st EXCEPT !.env = GenerateJwt(st.env, tok)]
    [] s.op = "makedirs" ->
         LET m == Makedirs(st.dirs, s.key, failAt = i) IN
         [st EXCEPT !.dirs = m.dirs,
                    !.ensured = IF m.ok THEN @ \cup {s.key} ELSE @,
                    !.raisedAt = IF m.raised THEN i ELSE 0]

RECURSIVE RunFrom(_, _, _, _)
\* statements i.. of the function, stopping at the first that raises
RunFrom(st, i, tok, failAt) ==
  IF i > Len(SetupStmts) \/ st.raisedAt # 0 THEN st
  ELSE RunFrom(ExecStmt(st, i, tok, failAt), i + 1, tok, failAt)

\* return file_store_path, cache_dir: the two local names, not the environment
ReturnValue(e) == <<file_store_path, cache_dir>>

\* one call of setup_hf_environment from environment e and directories d
setup_hf_environment(e, d, ens, tok, failAt) ==
  LET st == RunFrom([env |-> e, dirs |-> d, ensured |-> ens, raisedAt |-> 0],
                    1, tok, failAt)
  IN [env |-> st.env, dirs |-> st.dirs, ensured |-> st.ensured,
      raisedAt |-> st.raisedAt,
      ret |-> IF st.raisedAt = 0 THEN ReturnValue(st.env) ELSE NoReturn]

\* ------------------------------------------------------------------------
\* src/app_hf.py: the script (if __name__ == "__main__")
\* ------------------------------------------------------------------------

\* faulty variant: the exception of setup_hf_environment is swallowed
AfterSetupAlways(raised) == "configured"

\* an exception of setup_hf_environment is not caught: the script ends
AfterSetup(raised) == IF raised # 0 THEN "crashed" ELSE "configured"

\* line 76, and a second call in the same process
Setup ==
  /\ pc \in {"start", "configured"}
  /\ calls < MaxCalls
  /\ \E tok \in Tokens, failAt \in {0} \cup MakedirsAt :
       /\ failAt # 0 => SetupStmts[failAt].key \notin dirs
       /\ LET r == setup_hf_environment(env, dirs, ensured, tok, failAt) IN
          /\ env' = r.env
          /\ dirs' = r.dirs
          /\ ensured' = r.ensured
          /\ raisedAt' = r.raisedAt
          /\ retPrev' = ret
          /\ ret' = r.ret
          /\ pc' = AfterSetup(r.raisedAt)
  /\ envPrev' = env
  /\ calls' = calls + 1
  /\ UNCHANGED <<env0, dirs0, imported, packVars>>

\* line 79: from openhands.server.app import app (it may raise ImportError)
ImportApp ==
  /\ pc = "configured"
  /\ \E ok \in BOOLEAN : pc' = IF ok THEN "imported" ELSE "crashed"
  /\ imported' = TRUE
  /\ UNCHANGED <<env, dirs, ret, calls, env0, dirs0, envPrev, retPrev, ensured, raisedAt>>
  /\ UNCHANGED packVars

\* lines 82-113: the status lines, then uvicorn.run(app, ...)
Serve ==
  /\ pc = "imported"
  /\ pc' = "serving"
  /\ UNCHANGED <<env, dirs, ret, calls, env0, dirs0, envPrev, retPrev, ensured,
                 raisedAt, imported, packVars>>

\* the environments an operator may leave: at most MaxPreset variables set
RECURSIVE EnvsUpTo(_)
\* the environments with at most n of the variables set
EnvsUpTo(n) ==
  IF n = 0 THEN {<<>>}
  ELSE LET fewer == EnvsUpTo(n - 1) IN
       fewer \cup {(k :> v) @@ e : e \in fewer, k \in EnvNames, v \in OperatorValues}

InitialEnvs == EnvsUpTo(MaxPreset)

\* the filesystems the script may start on: a fresh container, one directory
\* left by an earlier run, or all of them already there
InitialDirs == {D \in SUBSET AllDirs : Cardinality(D) \in {0, 1, Cardinality(AllDirs)}}

ProvIdle ==
  /\ pc = "idle" /\ dirs = {} /\ ret = NoReturn /\ calls = 0 /\ env0 = env
  /\ dirs0 = {} /\ envPrev = env /\ retPrev = NoReturn /\ ensured = {}
  /\ raisedAt = 0 /\ imported = FALSE

PackIdle ==
  /\ ppc = "idle" /\ cwdFiles = <<>> /\ cwdDirs = <<>>
  /\ scratch = [kind |-> "absent", files |-> <<>>, dirs |-> {}]
  /\ checked = <<>> /\ missing_files = <<>>
  /\ r1 = "notrun" /\ r2 = "notrun" /\ r3 = "notrun"
  /\ started = {} /\ raisedStep = 0 /\ report = FALSE /\ scratch0 = scratch

Init ==
  /\ PackIdle
  /\ pc = "start"
  /\ env \in InitialEnvs
  /\ dirs \in InitialDirs
  /\ ret = NoReturn
  /\ calls = 0
  /\ env0 = env
  /\ dirs0 = dirs
  /\ envPrev = env
  /\ retPrev = NoReturn
  /\ ensured = {}
  /\ raisedAt = 0
  /\ imported = FALSE

Next == Setup \/ ImportApp \/ Serve

Spec == Init /\ [][Next]_vars

\* ------------------------------------------------------------------------
\* src/test_hf_deploy.py: file contents and text-mode I/O
\* ------------------------------------------------------------------------

CR == "\\r"
LF == "\\n"

\* the characters a template may hold: an ordinary one and the two line ends
Chars == {"x", CR, LF}

RECURSIVE SeqsUpTo(_)
SeqsUpTo(n) ==
  IF n = 0 THEN {<<>>}
  ELSE LET shorter == SeqsUpTo(n - 1) IN
       shorter \cup {Append(c, x) : c \in {d \in shorter : Len(d) = n - 1}, x \in Chars}

\* the contents README_HF.md may have
Contents == SeqsUpTo(MaxLen)

\* what an earlier run left in the scratch directory
Stale == <<"stale">>

RECURSIVE TextRead(_)
\* open(path, "r").read(): universal newlines, "\r\n" and "\r" are read as "\n"
TextRead(c) ==
  IF c = <<>> THEN <<>>
  ELSE IF Head(c) = CR
       THEN IF Len(c) >= 2 /\ c[2] = LF
            THEN <<LF>> \o TextRead(Tail(Tail(c)))
            ELSE <<LF>> \o TextRead(Tail(c))
       ELSE <<Head(c)>> \o TextRead(Tail(c))

\* open(path, "w").write(text): "\n" is written as os.linesep, "\n" on POSIX
TextWrite(t) == t

\* the literal readme_content starts from (lines 63-74)
FrontMatter ==
  << "---", LF,
     "title: OpenHands Backend API", LF,
     "emoji: U+1F916", LF,
     "colorFrom: blue", LF,
     "colorTo: purple", LF,
     "sdk: docker", LF,
     "pinned: false", LF,
     "license: mit", LF,
     "app_port: 7860", LF,
     "---", LF,
     LF >>

\* ------------------------------------------------------------------------
\* src/test_hf_deploy.py: test_file_preparation
\* ------------------------------------------------------------------------

required_files == <<"openhands/", "app_hf.py", "requirements.txt", "Dockerfile_HF", "README_HF.md">>

\* os.path.exists(p) in the invocation directory
Exists(p) ==
  IF p = "openhands/" THEN "openhands" \in DOMAIN cwdDirs ELSE p \in DOMAIN cwdFiles

\* faulty variant: the loop stops at the first missing path
RECURSIVE CollectFailFast(_, _, _)
CollectFailFast(i, seen, missing) ==
  IF i > Len(required_files) \/ missing # <<>> THEN [checked |-> seen, missing |-> missing]
  ELSE CollectFailFast(i + 1, Append(seen, required_files[i]),
                       IF ~Exists(required_files[i]) THEN Append(missing, required_files[i])
                       ELSE missing)

RECURSIVE CollectMissing(_, _, _)
\* the for loop of lines 23-27, from index i on
CollectMissing(i, seen, missing) ==
  IF i > Len(required_files) THEN [checked |-> seen, missing |-> missing]
  ELSE CollectMissing(i + 1, Append(seen, required_files[i]),
                      IF ~Exists(required_files[i]) THEN Append(missing, required_files[i])
                      ELSE missing)

test_file_preparation ==
  LET c == CollectMissing(1, <<>>, <<>>) IN
  [checked |-> c.checked, missing |-> c.missing,
   result |-> IF c.missing # <<>> THEN "False" ELSE "True"]

\* ------------------------------------------------------------------------
\* src/test_hf_deploy.py: simulate_workflow
\* ------------------------------------------------------------------------

AbsentDir == [kind |-> "absent", files |-> <<>>, dirs |-> {}]
EmptyDir == [kind |-> "dir", files |-> <<>>, dirs |-> {}]

Put(f, k, v) == [x \in DOMAIN f \cup {k} |-> IF x = k THEN v ELSE f[x]]

Copy(src, dst) == [op |-> "copy2", src |-> src, dst |-> dst]

\* faulty variant: the second copy of app_hf.py is not renamed to app.py
StepsEntryPointNotRenamed ==
  << [op |-> "rmtree", src |-> "", dst |-> ""],
     [op |-> "mkdir", src |-> "", dst |-> ""],
     [op |-> "copytree", src |-> "openhands", dst |-> "openhands"],
     Copy("app_hf.py", "app_hf.py"),
     Copy("app_hf.py", "app_hf.py"),
     Copy("requirements.txt", "requirements.txt"),
     Copy("Dockerfile_HF", "Dockerfile"),
     [op |-> "read", src |-> "README_HF.md", dst |-> ""],
     [op |-> "write", src |-> "", dst |-> "README.md"],
     [op |-> "copyenv", src |-> ".env.hf", dst |-> ".env"] >>

\* the filesystem steps of simulate_workflow, in program order (lines 41-84)
Steps ==
  << [op |-> "rmtree", src |-> "", dst |-> ""],
     [op |-> "mkdir", src |-> "", dst |-> ""],
     [op |-> "copytree", src |-> "openhands", dst |-> "openhands"],
     Copy("app_hf.py", "app_hf.py"),
     Copy("app_hf.py", "app.py"),
     Copy("requirements.txt", "requirements.txt"),
     Copy("Dockerfile_HF", "Dockerfile"),
     [op |-> "read", src |-> "README_HF.md", dst |-> ""],
     [op |-> "write", src |-> "", dst |-> "README.md"],
     [op |-> "copyenv", src |-> ".env.hf", dst |-> ".env"] >>

\* the steps before `try:` (lines 41-44): what they raise is not caught
FirstGuarded == 3

\* faulty variant: the template is copied without testing that it exists
EnvTemplateAlways == TRUE

\* os.path.exists(".env.hf") (line 82)
EnvTemplateExists == ".env.hf" \in DOMAIN cwdFiles

Raise(st, i) == [st EXCEPT !.raisedStep = i]

\* step i on the running state st; fault: the step's system call fails
ExecStep(st, i, fault) ==
  LET s == Steps[i]
      sc == st.scratch
  IN
  CASE s.op = "rmtree" ->
         IF sc.kind = "absent" THEN st                      \* exists() is false
         ELSE IF sc.kind = "file" \/ fault THEN Raise(st, i)  \* not a directory
         ELSE [st EXCEPT !.scratch = AbsentDir]
    [] s.op = "mkdir" ->
         IF sc.kind # "absent" \/ fault THEN Raise(st, i)
         ELSE [st EXCEPT !.scratch = EmptyDir]
    [] s.op = "copytree" ->
         IF s.src \notin DOMAIN cwdDirs \/ s.dst \in sc.dirs \/ fault THEN Raise(st, i)
         ELSE LET tree == cwdDirs[s.src] IN
              [st EXCEPT !.scratch.dirs = @ \cup {s.dst},
                         !.scratch.files = [x \in DOMAIN @ \cup DOMAIN tree |->
                                              IF x \in DOMAIN tree THEN tree[x] ELSE @[x]]]
    [] s.op = "copy2" ->
         IF s.src \notin DOMAIN cwdFiles \/ fault THEN Raise(st, i)
         ELSE [st EXCEPT !.scratch.files = Put(@, s.dst, cwdFiles[s.src])]
    [] s.op = "read" ->
         IF s.src \notin DOMAIN cwdFiles \/ fault THEN Raise(st, i)
         ELSE [st EXCEPT !.readme_content = FrontMatter \o TextRead(cwdFiles[s.src])]
    [] s.op = "write" ->
         IF fault THEN Raise(st, i)
         ELSE [st EXCEPT !.scratch.files = Put(@, s.dst, TextWrite(st.readme_content))]
    [] s.op = "copyenv" ->
         IF ~EnvTemplateExists THEN st
         ELSE IF s.src \notin DOMAIN cwdFiles \/ fault THEN Raise(st, i)
         ELSE [st EXCEPT !.scratch.files = Put(@, s.dst, cwdFiles[s.src])]

RECURSIVE RunSteps(_, _, _)
\* steps i.. of simulate_workflow, stopping at the first that raises
RunSteps(st, i, faultAt) ==
  IF i > Len(Steps) \/ st.raisedStep # 0 THEN st
  ELSE RunSteps(ExecStep(st, i, faultAt = i), i + 1, faultAt)

\* return True at the end, return False from `except Exception`, and an
\* exception of the steps before `try:` leaves the function uncaught
Outcome(raised) ==
  IF raised = 0 THEN "True"
  ELSE IF raised < FirstGuarded THEN "raise"
  ELSE "False"

simulate_workflow(sc, faultAt) ==
  LET st == RunSteps([scratch |-> sc, readme_content |-> <<>>, raisedStep |-> 0], 1, faultAt)
  IN [scratch |-> st.scratch, raisedStep |-> st.raisedStep, result |-> Outcome(st.raisedStep)]

\* ------------------------------------------------------------------------
\* src/test_hf_deploy.py: check_hf_token and main
\* ------------------------------------------------------------------------

\* token = os.getenv("HF_TOKEN"); if not token: return False
check_hf_token(e) ==
  IF "HF_TOKEN" \notin DOMAIN e \/ e["HF_TOKEN"] = "" THEN "False" ELSE "True"

\* faulty variant: main goes on after a failed file preparation test
AfterStage1Ungated(ok) == "prepared"

\* lines 116-118: main returns when the file preparation test failed
AfterStage1(ok) == IF ok = "True" THEN "prepared" ELSE "done"

\* lines 121-123
AfterStage2(ok) ==
  CASE ok = "True" -> "staged"
    [] ok = "False" -> "done"
    [] ok = "raise" -> "aborted"

MainStage1 ==
  /\ ppc = "main"
  /\ LET t == test_file_preparation IN
     /\ checked' = t.checked
     /\ missing_files' = t.missing
     /\ r1' = t.result
     /\ ppc' = AfterStage1(t.result)
  /\ started' = started \cup {1}
  /\ UNCHANGED <<cwdFiles, cwdDirs, scratch, r2, r3, raisedStep, report, scratch0, env>>
  /\ UNCHANGED <<pc, dirs, ret, calls, env0, dirs0, envPrev, retPrev, ensured, raisedAt, imported>>

MainStage2 ==
  /\ ppc = "prepared"
  /\ \E faultAt \in 0..Len(Steps) :
       LET w == simulate_workflow(scratch, faultAt) IN
       /\ scratch' = w.scratch
       /\ raisedStep' = w.raisedStep
       /\ r2' = IF w.result = "raise" THEN r2 ELSE w.result
       /\ ppc' = AfterStage2(w.result)
  /\ started' = started \cup {2}
  /\ UNCHANGED <<cwdFiles, cwdDirs, checked, missing_files, r1, r3, report, scratch0, env>>
  /\ UNCHANGED <<pc, dirs, ret, calls, env0, dirs0, envPrev, retPrev, ensured, raisedAt, imported>>

\* lines 126-132: the advisory token check, then the success report
MainStage3 ==
  /\ ppc = "staged"
  /\ r3' = check_hf_token(env)
  /\ report' = TRUE
  /\ ppc' = "done"
  /\ started' = started \cup {3}
  /\ UNCHANGED <<cwdFiles, cwdDirs, scratch, checked, missing_files, r1, r2, raisedStep,
                 scratch0, env>>
  /\ UNCHANGED <<pc, dirs, ret, calls, env0, dirs0, envPrev, retPrev, ensured, raisedAt, imported>>

\* the contents of the files of the invocation directory
FileContents ==
  [name \in {"app_hf.py", "requirements.txt", "Dockerfile_HF", "README_HF.md", ".env.hf"} |->
     CASE name = "app_hf.py" -> {<<"A">>}
       [] name = "requirements.txt" -> {<<"R">>}
       [] name = "Dockerfile_HF" -> {<<"D">>}
       [] name = "README_HF.md" -> Contents
       [] name = ".env.hf" -> {<<"K", "=", "V", CR, LF>>}]

\* file n of the invocation directory: absent, or there with one of its contents
FileOptions(n) == {<<>>} \cup {(n :> c) : c \in FileContents[n]}

InitialCwdFiles ==
  {a @@ r @@ d @@ m @@ e :
     a \in FileOptions("app_hf.py"), r \in FileOptions("requirements.txt"),
     d \in FileOptions("Dockerfile_HF"), m \in FileOptions("README_HF.md"),
     e \in FileOptions(".env.hf")}

\* ./openhands: absent, or a package directory with one module
InitialCwdDirs == {<<>>, [n \in {"openhands"} |-> [m \in {"openhands/__init__.py"} |-> <<"I">>]]}

\* ./test_hf_space: absent, a regular file, an empty directory, or the
\* directory an earlier run staged and left
InitialScratch ==
  {AbsentDir,
   [kind |-> "file", files |-> <<>>, dirs |-> {}],
   EmptyDir,
   [kind |-> "dir", dirs |-> {"openhands"},
    files |-> [n \in {"openhands/old.py", "README.md", ".env", "notes.txt"} |-> Stale]]}

InitPack ==
  /\ env \in {<<>>} \cup {[n \in {"HF_TOKEN"} |-> v] : v \in {"", "hf_secret"}}
  /\ ProvIdle
  /\ ppc = "main"
  /\ cwdFiles \in InitialCwdFiles
  /\ cwdDirs \in InitialCwdDirs
  /\ scratch \in InitialScratch
  /\ checked = <<>> /\ missing_files = <<>>
  /\ r1 = "notrun" /\ r2 = "notrun" /\ r3 = "notrun"
  /\ started = {} /\ raisedStep = 0 /\ report = FALSE /\ scratch0 = scratch

NextPack == MainStage1 \/ MainStage2 \/ MainStage3

SpecPack == InitPack /\ [][NextPack]_vars

\* ------------------------------------------------------------------------
\* Properties of the provisioner (checked under Spec)
\* ------------------------------------------------------------------------

\* the options of the defaulting table
TableOptions ==
  {"OPENHANDS_RUNTIME", "CORS_ALLOWED_ORIGINS", "SERVE_FRONTEND", "FILE_STORE_PATH",
   "CACHE_DIR", "JWT_SECRET", "DISABLE_SECURITY", "SANDBOX_RUNTIME_CONTAINER_IMAGE",
   "SANDBOX_USER_ID", "WORKSPACE_BASE", "OPENHANDS_DISABLE_AUTH", "ENABLE_AUTO_LINT",
   "ENABLE_SECURITY_ANALYSIS", "SETTINGS_STORE_TYPE", "SECRETS_STORE_TYPE",
   "DEFAULT_LLM_MODEL", "DEFAULT_LLM_BASE_URL", "MAX_ITERATIONS", "MAX_BUDGET_PER_TASK"}

\* the default the function lists for option k (its first setdefault of k)
DefaultOf(k) ==
  LET at == {i \in DOMAIN SetupStmts : SetupStmts[i].op = "setdefault" /\ SetupStmts[i].key = k}
      first == CHOOSE i \in at : \A j \in at : i <= j
  IN SetupStmts[first].val

HoldsDefault(k) ==
  /\ k \in DOMAIN env
  /\ IF k = "JWT_SECRET" THEN env[k] \in Tokens ELSE env[k] = DefaultOf(k)

\* C1: after setup_hf_environment returns, every option of the defaulting table
\* that the operator had not set holds its default (a fresh token for
\* JWT_SECRET), and every option the operator had set, to the empty string
\* included, holds the operator's value unchanged.
C1_SetIfAbsent ==
  (pc = "configured" /\ calls = 1) =>
    \A k \in TableOptions :
      IF k \in DOMAIN env0 THEN k \in DOMAIN env /\ env[k] = env0[k]
      ELSE HoldsDefault(k)

\* C2: a second call of setup_hf_environment in the same process changes no
\* environment variable (the session secret of the first call is kept) and
\* returns the same pair of paths as the first call.
C2_SecondCallChangesNothing ==
  (pc = "configured" /\ calls >= 2) => (env = envPrev /\ ret = retPrev)

\* a second call has returned in a process whose first call generated the secret
C2_Witness ==
  /\ pc = "configured" /\ calls = 2
  /\ "JWT_SECRET" \notin DOMAIN env0
  /\ env["JWT_SECRET"] \in Tokens

CreatedDirs == {file_store_path, cache_dir, workspace_dir}

\* C9: the application is imported and the server started only after
\* os.makedirs returned normally, in this run, for the file-store, cache and
\* workspace directories the function creates; when one of the three creations
\* raises, the script ends there: nothing is returned, no other directory is
\* made in its place, and neither the import nor the server start is reached.
C9_ServeOnlyAfterDirectories ==
  /\ (pc \in {"imported", "serving"} \/ imported) =>
        (raisedAt = 0 /\ CreatedDirs \subseteq ensured /\ CreatedDirs \subseteq dirs)
  /\ raisedAt # 0 =>
        /\ pc = "crashed"
        /\ ~imported
        /\ ret = NoReturn
        /\ SetupStmts[raisedAt].key \notin dirs
        /\ dirs \subseteq dirs0 \cup CreatedDirs

\* the server runs on a filesystem where the function had to create a directory
C9_Witness == pc = "serving" /\ dirs0 = {} /\ CreatedDirs \subseteq dirs

\* C10: after setup_hf_environment returns, the returned pair equals the
\* resolved FILE_STORE_PATH and CACHE_DIR, and the directories named by the
\* resolved FILE_STORE_PATH, CACHE_DIR and WORKSPACE_BASE exist.
C10_ReturnsResolvedPaths ==
  pc = "configured" =>
    /\ ret = <<env["FILE_STORE_PATH"], env["CACHE_DIR"]>>
    /\ {env["FILE_STORE_PATH"], env["CACHE_DIR"], env["WORKSPACE_BASE"]} \subseteq dirs

\* ------------------------------------------------------------------------
\* Properties of the packager (checked under SpecPack)
\* ------------------------------------------------------------------------

Missing(p) == ~Exists(p)

\* C3: test_file_preparation examines all five required paths, its
\* missing-list is exactly the required paths that do not exist, in the order
\* of the required list, and it returns success iff that list is empty.
C3_MissingListExact ==
  ppc # "main" =>
    /\ checked = required_files
    /\ missing_files = SelectSeq(required_files, Missing)
    /\ r1 \in {"True", "False"}
    /\ (r1 = "True") <=> (missing_files = <<>>)

\* the check ran where two or more required paths are missing, the first among them
C3_Witness ==
  /\ ppc # "main" /\ r1 = "False"
  /\ Len(missing_files) >= 2
  /\ missing_files[1] = "openhands/"

EnvFile == IF ".env.hf" \in DOMAIN cwdFiles THEN {".env"} ELSE {}

\* C4 as stated: after simulate_workflow returns success the scratch directory
\* holds exactly app.py, requirements.txt, Dockerfile and README.md, plus .env
\* only when the template was present (4 files, or 5), and nothing from before.
C4_ExactlyFourOrFive ==
  r2 = "True" =>
    /\ scratch.kind = "dir"
    /\ DOMAIN scratch.files = {"app.py", "requirements.txt", "Dockerfile", "README.md"} \cup EnvFile
    /\ \A n \in DOMAIN scratch.files : scratch.files[n] # Stale

\* C4 (amended): after simulate_workflow returns success, whatever the scratch
\* directory was before, it holds exactly the copy of the openhands tree,
\* app_hf.py, app.py (both with the content of app_hf.py), requirements.txt,
\* Dockerfile (the content of Dockerfile_HF) and README.md, plus .env only when
\* the template was present, and nothing that was there before the run.
C4_StagedTree ==
  r2 = "True" =>
    /\ scratch.kind = "dir"
    /\ scratch.dirs = {"openhands"}
    /\ DOMAIN scratch.files =
         {"app_hf.py", "app.py", "requirements.txt", "Dockerfile", "README.md"}
           \cup DOMAIN cwdDirs["openhands"] \cup EnvFile
    /\ Cardinality(DOMAIN scratch.files \ DOMAIN cwdDirs["openhands"]) =
         IF ".env.hf" \in DOMAIN cwdFiles THEN 6 ELSE 5
    /\ scratch.files["app_hf.py"] = cwdFiles["app_hf.py"]
    /\ scratch.files["app.py"] = cwdFiles["app_hf.py"]
    /\ scratch.files["requirements.txt"] = cwdFiles["requirements.txt"]
    /\ scratch.files["Dockerfile"] = cwdFiles["Dockerfile_HF"]
    /\ \A n \in DOMAIN cwdDirs["openhands"] : scratch.files[n] = cwdDirs["openhands"][n]
    /\ \A n \in DOMAIN scratch.files : scratch.files[n] # Stale

\* staging succeeded over the directory an earlier run had left
C4_Witness ==
  /\ r2 = "True"
  /\ scratch0.kind = "dir" /\ "notes.txt" \in DOMAIN scratch0.files
  /\ "app.py" \in DOMAIN scratch.files

\* C5: after simulate_workflow returns success, README.md is the metadata block
\* followed by the content of README_HF.md unmodified, for every content.
C5_ReadmeVerbatim ==
  r2 = "True" =>
    /\ "README.md" \in DOMAIN scratch.files
    /\ scratch.files["README.md"] = FrontMatter \o cwdFiles["README_HF.md"]

EnvStep == CHOOSE i \in DOMAIN Steps : Steps[i].op = "copyenv"

\* C6: the environment template is optional: when .env.hf is absent its step
\* never fails the staging, and after a successful staging no .env exists in
\* the scratch directory (also when an earlier run had staged one); when
\* .env.hf is present, a successful staging leaves .env with the same content.
C6_EnvTemplateOptional ==
  /\ ".env.hf" \notin DOMAIN cwdFiles => raisedStep # EnvStep
  /\ r2 = "True" =>
       IF ".env.hf" \in DOMAIN cwdFiles
       THEN ".env" \in DOMAIN scratch.files /\ scratch.files[".env"] = cwdFiles[".env.hf"]
       ELSE ".env" \notin DOMAIN scratch.files

\* staging succeeded without a template, over a scratch directory holding a stale .env
C6_Witness ==
  /\ r2 = "True"
  /\ ".env.hf" \notin DOMAIN cwdFiles
  /\ scratch0.kind = "dir" /\ ".env" \in DOMAIN scratch0.files

\* C7: main gates the stages in order: simulate_workflow starts, and the
\* scratch directory is touched, only after test_file_preparation returned
\* success; check_hf_token runs only after simulate_workflow returned success;
\* the final report is printed exactly when stages 1 and 2 both succeeded,
\* whatever check_hf_token returned.
C7_StagesGated ==
  /\ 2 \in started => r1 = "True"
  /\ scratch # scratch0 => (r1 = "True" /\ 2 \in started)
  /\ 3 \in started => (r2 = "True" /\ r3 \in {"True", "False"})
  /\ report => (r1 = "True" /\ r2 = "True" /\ 3 \in started)
  /\ ppc \in {"done", "aborted"} => (report <=> (r1 = "True" /\ r2 = "True"))

\* the pipeline reported success although no token is set
C7_Witness ==
  /\ ppc = "done" /\ report
  /\ "HF_TOKEN" \notin DOMAIN env /\ r3 = "False"

\* C8: a failure of any filesystem step of simulate_workflow, the removal and
\* the creation of the scratch directory included, makes it return failure
\* (never an uncaught exception, never success); main then ends without
\* running stage 3.
C8_EveryFailureReturnsFalse ==
  raisedStep # 0 =>
    /\ r2 = "False"
    /\ ppc = "done"
    /\ 3 \notin started
    /\ ~report

====
